---- MODULE Spec2Model ----
(***************************************************************************)
(* The request pipeline of src/src/server.ts (an Express 4 application)    *)
(* and the error middleware of src/src/middlewares/Error.ts.  A second     *)
(* copy of the middleware class, src/unnamed/part_000, is modelled as an   *)
(* alternative module that can stand behind the same import.               *)
(*                                                                         *)
(* Node runs one callback at a time.  A request is therefore handled in    *)
(* run-to-completion steps: one when it is received, one when the body     *)
(* parser has read its body, one when the static middleware's file lookup  *)
(* returns.  Everything the router does between two such points (matching  *)
(* the layers in registration order, calling a handler, catching what it   *)
(* throws, passing the error on) happens inside one step; Dispatch is that *)
(* walk over the layer stack.                                              *)
(*                                                                         *)
(* Express 4 is the framework: app.get("*") is a route path only there.      *)
(*                                                                         *)
(* URLs are sequences of characters, so that startsWith and the route      *)
(* patterns are computed on the text and not assumed.  Not modelled: query *)
(* strings, HEAD (which app.get also serves), case-insensitive matching,   *)
(* and a failure of the error template itself.                             *)
(***************************************************************************)
EXTENDS Naturals, Sequences, FiniteSets

\* The number of requests a behaviour receives (their ids, in arrival order).
MaxReq == 2

Req == 1..MaxReq

---------------------------------------------------------------------------
\* Text

Slash == <<"/">>
W_products == <<"p", "r", "o", "d", "u", "c", "t", "s">>
W_api == <<"a", "p", "i">>
W_apifoo == <<"a", "p", "i", "f", "o", "o">>
W_nope == <<"n", "o", "p", "e">>
W_x == <<"x">>
Id1 == <<"1">>
Id9 == <<"9">>

P_root == Slash
P_products == Slash \o W_products
P_api == Slash \o W_api
P_apiProducts == P_api \o Slash \o W_products

\* The URLs requests are sent to.
Urls ==
  { P_root,
    P_products,
    P_products \o Slash \o Id1,
    P_products \o Slash \o Id9,
    P_apiProducts,
    P_apiProducts \o Slash \o Id1,
    P_apiProducts \o Slash \o Id9,
    P_apiProducts \o Slash \o Id1 \o Slash \o W_x,
    P_api,
    Slash \o W_apifoo,
    Slash \o W_nope }

\* The requests sent: a GET of every URL, and a POST (with a JSON body) of some.
PostUrls == {P_products, P_apiProducts, Slash \o W_nope}

Requests ==
  {[method |-> "GET", url |-> u] : u \in Urls}
    \cup {[method |-> "POST", url |-> u] : u \in PostUrls}

\* process.env.NODE_ENV; "undefined" stands for the variable not being set.
Envs == {"development", "production", "undefined"}

\* The two copies of the middleware class.
Middlewares == {"Error.ts", "part_000"}

\* A prefix test that wants the prefix to end at a segment boundary.
StartsWithSegment(s, p) ==
  /\ Len(s) >= Len(p)
  /\ SubSeq(s, 1, Len(p)) = p
  /\ (Len(s) = Len(p) \/ s[Len(p) + 1] = "/")

\* String.prototype.startsWith
StartsWith(s, p) == Len(s) >= Len(p) /\ SubSeq(s, 1, Len(p)) = p

\* s without its first n characters
Drop(s, n) == SubSeq(s, n + 1, Len(s))

\* Express matches a route path with or without one trailing slash.
NoTrailingSlash(s) ==
  IF Len(s) > 0 /\ s[Len(s)] = "/" THEN SubSeq(s, 1, Len(s) - 1) ELSE s

HasSlash(s) == \E i \in 1..Len(s) : s[i] = "/"

\* An exact route path such as "/products" or "/".
MatchExact(pat, url) == NoTrailingSlash(url) = NoTrailingSlash(pat)

\* A route path "<prefix>/:id": one non-empty segment after the prefix.
ParamOf(prefix, url) == NoTrailingSlash(Drop(url, Len(prefix) + 1))

MatchParam(prefix, url) ==
  /\ StartsWith(url, prefix \o Slash)
  /\ Len(ParamOf(prefix, url)) > 0
  /\ ~HasSlash(ParamOf(prefix, url))

\* A mount path of app.use: a prefix that ends at a segment boundary.
MatchMount(prefix, url) ==
  \/ prefix = Slash
  \/ /\ StartsWith(url, prefix)
     /\ (Len(url) = Len(prefix) \/ url[Len(prefix) + 1] = "/")

\* req.url inside a mounted router: the mount path removed, "/" if nothing is left.
StripMount(prefix, url) ==
  IF Len(Drop(url, Len(prefix))) = 0 THEN Slash ELSE Drop(url, Len(prefix))

---------------------------------------------------------------------------
\* Errors and responses

\* An Error: its message, its stack, and the HTTP status it carries (body-parser
\* marks a body it cannot parse 400; a plain Error carries none, which
\* Express's final handler reads as 500).
NoErr == [message |-> "", stack |-> "", status |-> 0]
Boom == [message |-> "boom", stack |-> "Error: boom at handler", status |-> 500]
ParseError ==
  [message |-> "Unexpected token",
   stack |-> "SyntaxError: Unexpected token at JSON.parse",
   status |-> 400]

Null == "null"

NotRaised == [by |-> "", url |-> <<>>, err |-> NoErr]

\* A response: the status line, the kind of body, the template rendered (if
\* any) and the fields of the JSON body or of the template's locals.
Resp(status, type, view) ==
  [status |-> status, type |-> type, view |-> view, data |-> <<>>,
   error |-> "", message |-> "", stack |-> "", pageTitle |-> ""]

NewTx(method, url) ==
  [phase |-> "new", method |-> method, originalUrl |-> url, url |-> url,
   raised |-> NotRaised, out |-> <<>>, late |-> 0, trace |-> <<>>]

Idle == [NewTx("", <<>>) EXCEPT !.phase = "idle"]

HeadersSent(tx) == Len(tx.out) > 0

\* res.send / res.json / res.render writing the response.
Send(tx, resp) == [tx EXCEPT !.out = Append(@, resp)]

Enter(tx, name) == [tx EXCEPT !.trace = Append(@, name)]

\* What a handler hands back to the router: the request as it left it, and
\* whether it ended the request ("end"), called next() ("next"), threw or
\* called next(err) ("error"), or is waiting for I/O ("wait").
Ret(tx, sig, err) == [tx |-> tx, sig |-> sig, err |-> err]

Raise(tx, name, err) ==
  Ret([tx EXCEPT !.raised = IF @ = NotRaised
                             THEN [by |-> name, url |-> tx.url, err |-> err]
                             ELSE @],
      "error", err)

---------------------------------------------------------------------------
\* State

VARIABLES
  tx,          \* request id -> the request and what has been answered to it
  NODE_ENV,    \* process.env.NODE_ENV
  imported     \* the file behind import "./middlewares/Error"

vars == <<tx, NODE_ENV, imported>>

---------------------------------------------------------------------------
\* Middleware and handlers

\* express.json(): a request without a body goes on at once; a body is read first.
json(req) ==
  IF req.method = "POST"
  THEN Ret(Enter(req, "express.json"), "wait", NoErr)
  ELSE Ret(Enter(req, "express.json"), "next", NoErr)

\* express.static(): looks a GET up in the public directory; other methods go on.
static(req) ==
  IF req.method = "GET"
  THEN Ret(Enter(req, "express.static"), "wait", NoErr)
  ELSE Ret(Enter(req, "express.static"), "next", NoErr)

\* The ids of the generated products.
ProductIds == {Id1}

\* ProductsViewController.renderProductsList
renderProductsList(req, throws) ==
  IF throws
  THEN Raise(Enter(req, "renderProductsList"), "renderProductsList", Boom)
  ELSE Ret(Send(Enter(req, "renderProductsList"),
                [Resp(200, "html", "products") EXCEPT !.data = <<"list">>]),
           "end", NoErr)

\* ProductsViewController.renderProductPage
renderProductPage(req, id, throws) ==
  IF throws
  THEN Raise(Enter(req, "renderProductPage"), "renderProductPage", Boom)
  ELSE IF id \in ProductIds
  THEN Ret(Send(Enter(req, "renderProductPage"),
                [Resp(200, "html", "product") EXCEPT !.data = id]),
           "end", NoErr)
  ELSE Ret(Send(Enter(req, "renderProductPage"), Resp(404, "html", "notFound")),
           "end", NoErr)

\* ProductController: the list endpoint of the API.
getProducts(req, throws) ==
  IF throws
  THEN Raise(Enter(req, "getProducts"), "getProducts", Boom)
  ELSE Ret(Send(Enter(req, "getProducts"),
                [Resp(200, "json", "") EXCEPT !.data = <<"list">>]),
           "end", NoErr)

\* ProductController: the get-by-id endpoint of the API.
getProductById(req, id, throws) ==
  IF throws
  THEN Raise(Enter(req, "getProductById"), "getProductById", Boom)
  ELSE IF id \in ProductIds
  THEN Ret(Send(Enter(req, "getProductById"),
                [Resp(200, "json", "") EXCEPT !.data = id]),
           "end", NoErr)
  ELSE Ret(Send(Enter(req, "getProductById"),
                [Resp(404, "json", "") EXCEPT !.error = "Not Found"]),
           "end", NoErr)

\* The router mounted at /api/products.  Inside it req.url is the rest of
\* the path; the router puts req.url back when it hands the request on.  A
\* request that none of its routes match goes on to the application's next layer.
productsRouter(req, throws) ==
  LET in == Enter([req EXCEPT !.url = StripMount(P_apiProducts, req.url)],
                  "productsRouter")
      r == IF in.method = "GET" /\ MatchExact(Slash, in.url)
           THEN getProducts(in, throws)
           ELSE IF in.method = "GET" /\ MatchParam(<<>>, in.url)
           THEN getProductById(in, ParamOf(<<>>, in.url), throws)
           ELSE Ret(in, "next", NoErr)
  IN  Ret([r.tx EXCEPT !.url = req.url], r.sig, r.err)

\* (_, res) => res.render("index"); a template that fails to render is next(err).
index(req, throws) ==
  IF throws
  THEN Raise(Enter(req, "index"), "index", Boom)
  ELSE Ret(Send(Enter(req, "index"), Resp(200, "html", "index")), "end", NoErr)

\* The fallback with res.status(404) before render.
notFound_404(req, throws) ==
  IF throws
  THEN Raise(Enter(req, "notFound"), "notFound", Boom)
  ELSE Ret(Send(Enter(req, "notFound"), Resp(404, "html", "notFound")), "end", NoErr)

\* (_, res) => res.render("notFound")
notFound(req, throws) ==
  IF throws
  THEN Raise(Enter(req, "notFound"), "notFound", Boom)
  ELSE Ret(Send(Enter(req, "notFound"), Resp(200, "html", "notFound")), "end", NoErr)

\* The JSON body with the label and the fault's message in each other's field.
ErrorJson_swapped(err) ==
  [Resp(500, "json", "") EXCEPT
     !.error = err.message,
     !.message = "Internal Server Error",
     !.stack = IF NODE_ENV = "development" THEN err.stack ELSE Null]

\* The JSON body that withholds the stack in production only.
ErrorJson_leak(err) ==
  [Resp(500, "json", "") EXCEPT
     !.error = "Internal Server Error",
     !.message = err.message,
     !.stack = IF NODE_ENV # "production" THEN err.stack ELSE Null]

\* The JSON body of Error.ts.
ErrorJson(err) ==
  [Resp(500, "json", "") EXCEPT
     !.error = "Internal Server Error",
     !.message = err.message,
     !.stack = IF NODE_ENV = "development" THEN err.stack ELSE Null]

\* The locals Error.ts renders the "error" template with.
ErrorPage(err) ==
  [Resp(500, "html", "error") EXCEPT
     !.pageTitle = "Something error.",
     !.message = "500, Error Server Down.",
     !.error = err.message]

\* handle without res.status(500) before render.
handle_status200(err, req) ==
  IF StartsWith(req.originalUrl, P_api)
  THEN Ret(Send(Enter(req, "ErrorMiddleware.handle"), ErrorJson(err)), "end", NoErr)
  ELSE Ret(Send(Enter(req, "ErrorMiddleware.handle"),
                [ErrorPage(err) EXCEPT !.status = 200]),
           "next", NoErr)

\* ErrorMiddleware.handle of src/src/middlewares/Error.ts.  The /api branch
\* returns after res.json; the other branch calls next() after res.render.
\* With the pug engine of Express 4 render is synchronous, so the page has
\* been sent when next() hands the request on.
handle(err, req) ==
  IF StartsWith(req.originalUrl, P_api)
  THEN Ret(Send(Enter(req, "ErrorMiddleware.handle"), ErrorJson(err)), "end", NoErr)
  ELSE Ret(Send(Enter(req, "ErrorMiddleware.handle"), ErrorPage(err)), "next", NoErr)

\* ErrorMiddleware.handle of src/unnamed/part_000: JSON on /api, nothing
\* elsewhere, and next() in both cases.
handle_part_000(err, req) ==
  IF StartsWith(req.originalUrl, P_api)
  THEN Ret(Send(Enter(req, "ErrorMiddleware.handle"),
                [ErrorJson(err) EXCEPT !.error = "Interal Server Error"]),
           "next", NoErr)
  ELSE Ret(Enter(req, "ErrorMiddleware.handle"), "next", NoErr)

\* Express's last resort when the layer stack is exhausted: 404 (or the
\* error's status page) unless the response has already been started, in
\* which case nothing can be written any more.
finalhandler(err, req) ==
  IF HeadersSent(req)
  THEN [Enter(req, "finalhandler") EXCEPT !.late = @ + 1]
  ELSE IF err = NoErr
  THEN Send(Enter(req, "finalhandler"), Resp(404, "default", ""))
  ELSE Send(Enter(req, "finalhandler"),
            [Resp(err.status, "default", "") EXCEPT !.message = err.message])

---------------------------------------------------------------------------
\* The application's layer stack

Layer(kind, path, name) == [kind |-> kind, path |-> path, name |-> name]

\* The registration with the "*" route ahead of the "/" route.
Stack_starFirst ==
  << Layer("use", Slash, "express.json"),
     Layer("use", Slash, "express.static"),
     Layer("get", P_products, "renderProductsList"),
     Layer("get:id", P_products, "renderProductPage"),
     Layer("use", P_apiProducts, "productsRouter"),
     Layer("get*", <<>>, "notFound"),
     Layer("get", P_root, "index"),
     Layer("use", Slash, "ErrorMiddleware.handle") >>

\* The registration with the error middleware ahead of the routes.
Stack_errFirst ==
  << Layer("use", Slash, "express.json"),
     Layer("use", Slash, "express.static"),
     Layer("use", Slash, "ErrorMiddleware.handle"),
     Layer("get", P_products, "renderProductsList"),
     Layer("get:id", P_products, "renderProductPage"),
     Layer("use", P_apiProducts, "productsRouter"),
     Layer("get", P_root, "index"),
     Layer("get*", <<>>, "notFound") >>

\* app.use / app.get in registration order.  kind "get" is an exact GET
\* route, "get:id" a GET route with one path parameter after path, "get*"
\* the GET route "*", "use" a middleware mounted at path.
Stack ==
  << Layer("use", Slash, "express.json"),
     Layer("use", Slash, "express.static"),
     Layer("get", P_products, "renderProductsList"),
     Layer("get:id", P_products, "renderProductPage"),
     Layer("use", P_apiProducts, "productsRouter"),
     Layer("get", P_root, "index"),
     Layer("get*", <<>>, "notFound"),
     Layer("use", Slash, "ErrorMiddleware.handle") >>

IndexOf(name) == CHOOSE i \in DOMAIN Stack : Stack[i].name = name

\* handle declared without its err parameter.
IsErrorHandler_never(name) == FALSE

\* A handler declared with four parameters (err, req, res, next) is an error
\* handler: Express calls it only while an error is pending.
IsErrorHandler(name) == name = "ErrorMiddleware.handle"

Matches(layer, req) ==
  CASE layer.kind = "use" -> MatchMount(layer.path, req.url)
    [] layer.kind = "get" -> req.method = "GET" /\ MatchExact(layer.path, req.url)
    [] layer.kind = "get:id" -> req.method = "GET" /\ MatchParam(layer.path, req.url)
    [] layer.kind = "get*" -> req.method = "GET"

\* The error middleware app.use registers: the class the import resolves to.
InvokeError(err, req) ==
  IF imported = "Error.ts" THEN handle(err, req) ELSE handle_part_000(err, req)

\* Layer.handle_request: the layer's function called as fn(req, res, next).
Invoke(name, req, throws) ==
  CASE name = "express.json" -> json(req)
    [] name = "express.static" -> static(req)
    [] name = "renderProductsList" -> renderProductsList(req, throws)
    [] name = "renderProductPage" ->
         renderProductPage(req, ParamOf(P_products, req.url), throws)
    [] name = "productsRouter" -> productsRouter(req, throws)
    [] name = "index" -> index(req, throws)
    [] name = "notFound" -> notFound(req, throws)
    [] name = "ErrorMiddleware.handle" -> InvokeError(NoErr, req)

WaitPhase(name) == IF name = "express.json" THEN "body" ELSE "stat"

\* The router's next(): from layer idx on, the first layer that matches the
\* request and fits the mode (error pending or not) is called; what it
\* hands back decides how the walk goes on.
RECURSIVE Dispatch(_, _, _, _)
Dispatch(req, idx, err, throws) ==
  IF idx > Len(Stack)
  THEN [finalhandler(err, req) EXCEPT !.phase = "done"]
  ELSE
    LET layer == Stack[idx]
        skip == \/ ~Matches(layer, req)
                \/ (err # NoErr) # IsErrorHandler(layer.name)
                \/ err # NoErr /\ layer.kind # "use"
        r == IF err # NoErr
             THEN InvokeError(err, req)
             ELSE Invoke(layer.name, req, throws)
    IN  IF skip THEN Dispatch(req, idx + 1, err, throws)
        ELSE CASE r.sig = "end" -> [r.tx EXCEPT !.phase = "done"]
               [] r.sig = "wait" -> [r.tx EXCEPT !.phase = WaitPhase(layer.name)]
               [] r.sig = "next" -> Dispatch(r.tx, idx + 1, NoErr, throws)
               [] r.sig = "error" -> Dispatch(r.tx, idx + 1, r.err, throws)

---------------------------------------------------------------------------
\* Steps

\* A request arrives (app.listen) and runs until its first wait.
Receive(r) ==
  /\ tx[r].phase = "idle"
  /\ \A p \in Req : p < r => tx[p].phase # "idle"
  /\ \E q \in Requests :
       tx' = [tx EXCEPT ![r] = Dispatch(NewTx(q.method, q.url), 1, NoErr, FALSE)]
  /\ UNCHANGED <<NODE_ENV, imported>>

\* express.json has read the body: it parses (next()) or does not (next(err)).
BodyRead(r) ==
  /\ tx[r].phase = "body"
  /\ \E ok \in BOOLEAN :
       LET after == IF ok THEN Ret(tx[r], "next", NoErr)
                    ELSE Raise(tx[r], "express.json", ParseError)
       IN  tx' = [tx EXCEPT
                    ![r] = Dispatch(after.tx, IndexOf("express.json") + 1,
                                    after.err, FALSE)]
  /\ UNCHANGED <<NODE_ENV, imported>>

\* A lookup step whose fault takes the other requests in flight down with it.
StatDone_shared(r) ==
  /\ tx[r].phase = "stat"
  /\ \E exists \in BOOLEAN, throws \in BOOLEAN :
       LET mine == IF exists
                   THEN [Send(tx[r], Resp(200, "file", "")) EXCEPT !.phase = "done"]
                   ELSE Dispatch(tx[r], IndexOf("express.static") + 1, NoErr, throws)
       IN  tx' = [q \in Req |->
                    IF q = r THEN mine
                    ELSE IF mine.raised # NotRaised /\ tx[q].phase \in {"body", "stat"}
                    THEN [tx[q] EXCEPT !.phase = "done"]
                    ELSE tx[q]]
  /\ UNCHANGED <<NODE_ENV, imported>>

\* express.static's lookup returns: the file is served, or the request goes
\* on to the routes, where the handler it reaches renders or throws.
StatDone(r) ==
  /\ tx[r].phase = "stat"
  /\ \E exists \in BOOLEAN, throws \in BOOLEAN :
       tx' = [tx EXCEPT
                ![r] = IF exists
                       THEN [Send(tx[r], Resp(200, "file", "")) EXCEPT !.phase = "done"]
                       ELSE Dispatch(tx[r], IndexOf("express.static") + 1, NoErr, throws)]
  /\ UNCHANGED <<NODE_ENV, imported>>

Init ==
  /\ tx = [r \in Req |-> Idle]
  /\ NODE_ENV \in Envs
  /\ imported = "Error.ts"

InitEither ==
  /\ tx = [r \in Req |-> Idle]
  /\ NODE_ENV \in Envs
  /\ imported \in Middlewares

Next == \E r \in Req : Receive(r) \/ BodyRead(r) \/ StatDone(r)

\* The application as server.ts wires it.
Spec == Init /\ [][Next]_vars

\* The same application with either copy of the middleware class installed.
SpecEither == InitEither /\ [][Next]_vars

---------------------------------------------------------------------------
\* Properties

Done(r) == tx[r].phase = "done"

\* A handler of request r threw, or a middleware passed an error to next.
Faulted(r) == tx[r].raised # NotRaised

Count(r, name) == Cardinality({i \in DOMAIN tx[r].trace : tx[r].trace[i] = name})

Ran(r, name) == Count(r, name) > 0

\* The request got to the routes: neither served as a static file nor
\* rejected by the body parser.
Routed(r) ==
  /\ Done(r)
  /\ tx[r].raised.by # "express.json"
  /\ ~(Len(tx[r].out) > 0 /\ tx[r].out[1].type = "file")

\* The URLs whose first four characters are /api, read off the text.
ApiPrefixed ==
  {u \in Urls : Len(u) >= 4 /\ u[1] = "/" /\ u[2] = "a" /\ u[3] = "p" /\ u[4] = "i"}

UnderApiProducts ==
  { P_apiProducts,
    P_apiProducts \o Slash \o Id1,
    P_apiProducts \o Slash \o Id9,
    P_apiProducts \o Slash \o Id1 \o Slash \o W_x }

\* The paths under /api/products that the API router has a GET route for.
ApiRouted ==
  {P_apiProducts, P_apiProducts \o Slash \o Id1, P_apiProducts \o Slash \o Id9}

ProductPages == {P_products \o Slash \o Id1, P_products \o Slash \o Id9}

\* The handlers that answer a request.
Responders ==
  {"renderProductsList", "renderProductPage", "getProducts", "getProductById",
   "index", "notFound"}

RespondersRun(r) ==
  Cardinality({i \in DOMAIN tx[r].trace : tx[r].trace[i] \in Responders})

\* C1: every request whose handler throws gets exactly one response from
\* ErrorMiddleware.handle and no further attempt to respond after it, on
\* /api paths and on the others.
C1_ExactlyOneResponseNoSecondAttempt ==
  \A r \in Req :
    Done(r) /\ Faulted(r) => Len(tx[r].out) = 1 /\ tx[r].late = 0

\* C2: a fault on a request whose original URL starts with /api is answered
\* with status 500 and a JSON body whose error field is the fixed label of
\* the installed middleware and whose message field is the fault's message;
\* no template is rendered.
C2_ApiFaultIsJson500 ==
  \A r \in Req :
    Done(r) /\ Faulted(r) /\ tx[r].originalUrl \in ApiPrefixed =>
      /\ Len(tx[r].out) = 1
      /\ tx[r].out[1].status = 500
      /\ tx[r].out[1].type = "json"
      /\ tx[r].out[1].view = ""
      /\ tx[r].out[1].error =
           (IF imported = "Error.ts" THEN "Internal Server Error"
            ELSE "Interal Server Error")
      /\ tx[r].out[1].message = tx[r].raised.err.message

C2_Witness ==
  \E r \in Req :
    /\ Done(r)
    /\ tx[r].raised.by = "getProductById"
    /\ tx[r].originalUrl = P_apiProducts \o Slash \o Id1
    /\ tx[r].out[1].type = "json"
    /\ tx[r].out[1].message = "boom"

C4_StackOnlyInDevelopment ==
  \A r \in Req :
    Done(r) /\ Faulted(r) /\ tx[r].originalUrl \in ApiPrefixed =>
      /\ Len(tx[r].out) >= 1
      /\ tx[r].raised.err.stack # Null
      /\ NODE_ENV = "development" => tx[r].out[1].stack = tx[r].raised.err.stack
      /\ NODE_ENV # "development" => tx[r].out[1].stack = Null

C4_Witness ==
  /\ NODE_ENV = "undefined"
  /\ \E r \in Req :
       /\ Done(r)
       /\ Faulted(r)
       /\ tx[r].originalUrl \in ApiPrefixed
       /\ tx[r].out[1].stack = Null

NoRoute(r) ==
  /\ ~(tx[r].method = "GET" /\ tx[r].originalUrl = P_products)
  /\ ~(tx[r].method = "GET" /\ tx[r].originalUrl \in ProductPages)
  /\ tx[r].originalUrl \notin UnderApiProducts
  /\ ~(tx[r].method = "GET" /\ tx[r].originalUrl = P_root)

C7_FaultReachesErrorMiddleware ==
  \A r \in Req :
    Faulted(r) =>
      /\ Done(r)
      /\ Count(r, "ErrorMiddleware.handle") = 1
      /\ Len(tx[r].out) >= 1
      /\ tx[r].out[1].status = 500
      /\ tx[r].raised.err.message \in {tx[r].out[1].message, tx[r].out[1].error}

C7_Witness ==
  \E r \in Req :
    /\ Done(r)
    /\ tx[r].raised.by = "index"
    /\ Ran(r, "ErrorMiddleware.handle")
    /\ tx[r].out[1].status = 500

\* C8: the error middleware runs for a request only if a handler of that
\* request raised, and a request whose handlers raise nothing, the fallback
\* included, never gets a 500.
C8_FaultDispatchOnlyOnThrow ==
  \A r \in Req :
    /\ Ran(r, "ErrorMiddleware.handle") => Faulted(r)
    /\ ~Faulted(r) => \A i \in DOMAIN tx[r].out : tx[r].out[i].status # 500

C8_Witness ==
  \E r \in Req :
    /\ Done(r)
    /\ ~Faulted(r)
    /\ tx[r].method = "POST"
    /\ Ran(r, "finalhandler")
    /\ ~Ran(r, "ErrorMiddleware.handle")

\* Two answered requests that were the same request, took the same way
\* through the layers and met the same fault were answered alike.
AnsweredAlike ==
  \A r, q \in Req :
    /\ Done(r) /\ Done(q)
    /\ tx[r].method = tx[q].method
    /\ tx[r].originalUrl = tx[q].originalUrl
    /\ tx[r].raised = tx[q].raised
    /\ tx[r].trace = tx[q].trace
    => tx[r].out = tx[q].out

C10_ChoiceByOriginalUrl ==
  \A r \in Req :
    Done(r) /\ Faulted(r) =>
      /\ tx[r].raised.by \in {"getProducts", "getProductById"} =>
           /\ tx[r].raised.url \in {Slash, Slash \o Id1, Slash \o Id9}
           /\ tx[r].out[1].type = "json"
      /\ tx[r].originalUrl \in {P_api, Slash \o W_apifoo} =>
           /\ tx[r].raised.by = "notFound"
           /\ tx[r].out[1].type = "json"
      /\ tx[r].out[1].type = "json" <=> tx[r].originalUrl \in ApiPrefixed

C10_Witness ==
  \E r, q \in Req :
    /\ Done(r) /\ tx[r].raised.by = "getProductById" /\ tx[r].raised.url = Slash \o Id1
    /\ tx[r].out[1].type = "json"
    /\ Done(q) /\ tx[q].originalUrl = Slash \o W_apifoo /\ tx[q].raised.by = "notFound"
    /\ tx[q].out[1].type = "json"

====
